---------------------------- MODULE Spec2Model ----------------------------
(***************************************************************************)
(* Model of vclock.py: N node threads, each running a private script of    *)
(* events (independent, send, receive-with-dependency) over vector clocks  *)
(* and one FIFO message queue per node.                                    *)
(*                                                                         *)
(* VectorClock objects live in a heap, because Python passes them by       *)
(* reference: a node's clock is the object at reference = node id, and     *)
(* VectorClock.copy allocates a fresh object for every message.            *)
(*                                                                         *)
(* Atomicity: a step is one access to shared state (a queue put, a queue   *)
(* get, a print) together with the thread-local statements next to it.     *)
(***************************************************************************)
EXTENDS Integers, Sequences, FiniteSets, TLC

\* Number of nodes: the 'n,X' line of the input file.
NumNodes == 2
\* Total number of events in the scripts of all nodes together.
MaxEvents == 4
\* Python's None, for the Event fields a type does not use and for the id
\* of a detached clock copy.
None == -1

Nodes == 0 .. (NumNodes - 1)

VARIABLES
    events,   \* events[n]: the script of node n, a sequence of Event
    heap,     \* heap[ref]: a VectorClock object, [id, clock]
    queues,   \* queues[n]: the messages waiting in node n's queue
    buffer,   \* buffer[n]: Node.buffer, the event ids buffered by node n
    idx,      \* idx[n]: position of node n's 'for ev in self.events' loop
    pc,       \* pc[n]: where node n's thread stands
    out,      \* the console: the records printed by Node.log, in print order
    enq,      \* history: enq[n] = every message ever put on queues[n]
    deq,      \* history: deq[n] = every message node n got from its queue
    matched,  \* history: matched[n] = how each finished wait was satisfied
    begun,    \* history: begun[n] = own slot and number of gets at event start
    steps,    \* history: steps[n] = own clock slot before/after each event
    pending,  \* merge harness: the clock objects not merged yet
    given     \* merge harness: the heap before the first merge

harness == <<pending, given>>

vars == <<events, heap, queues, buffer, idx, pc, out, enq, deq, matched, begun,
          steps, harness>>

---------------------------------------------------------------------------
\* Message, Event, VectorClock

Message(event_id, clock) == [event_id |-> event_id, clock |-> clock]

Event(event_id, event_type, receiver_id, dependency_id) ==
    [event_id |-> event_id, type |-> event_type,
     receiver |-> receiver_id, dependency |-> dependency_id]

VectorClock(id, n) == [id |-> id, clock |-> [i \in 0 .. (n - 1) |-> 0]]

Max(a, b) == IF a >= b THEN a ELSE b

\* (variant: slot 0 is incremented whatever the owner)
incFirst(h, ref) == [h EXCEPT ![ref].clock[0] = @ + 1]

\* VectorClock.inc on the object at ref: clock[self.id] += 1
inc(h, ref) == [h EXCEPT ![ref].clock[h[ref].id] = @ + 1]

\* (variant: the minimum instead of the maximum)
mergeMin(h, ref, other) ==
    [h EXCEPT ![ref].clock =
        [i \in DOMAIN h[ref].clock |->
            IF h[ref].clock[i] <= h[other].clock[i] THEN h[ref].clock[i] ELSE h[other].clock[i]]]

\* VectorClock.merge on the object at ref with the object at other:
\* element-wise max, then inc.
mergeMax(h, ref, other) ==
    [h EXCEPT ![ref].clock =
        [i \in DOMAIN h[ref].clock |-> Max(h[ref].clock[i], h[other].clock[i])]]

\* (variant: the maximum is left out)
mergeOwnOnly(h, ref, other) == inc(h, ref)

\* (variant: the increment is left out)
mergeNoInc(h, ref, other) == mergeMax(h, ref, other)

merge(h, ref, other) == inc(mergeMax(h, ref, other), ref)

\* The reference of the object VectorClock.copy allocates while sending
\* event_id (one allocation per send event; node clocks are 0..NumNodes-1).
NewRef(event_id) == NumNodes + event_id - 1

\* (variant: no new object, the sender's own clock object is handed out)
copyAlias(h, ref, new) == [heap |-> h, ref |-> ref]

\* (variant: the new object is left at its zeros)
copyZeros(h, ref, new) ==
    [heap |-> h @@ (new :> [id |-> None, clock |-> [i \in DOMAIN h[ref].clock |-> 0]]),
     ref |-> new]

\* VectorClock.copy of the object at ref into a new object at new, with
\* id None; gives the heap and the reference returned.
copy(h, ref, new) ==
    [heap |-> h @@ (new :> [id |-> None,
                            clock |-> [i \in DOMAIN h[ref].clock |-> h[ref].clock[i]]]),
     ref |-> new]

\* (variant: a buffer lookup that never finds the id)
bufferedNever(buf, event_id) == FALSE

\* Node.buffered: self.buffer.index(event_id) > -1, False when index raises.
buffered(buf, event_id) == \E k \in 1 .. Len(buf) : buf[k] = event_id

\* list.index: the first position holding event_id (1-based here, 0 when
\* there is none).
BufIndex(buf, event_id) ==
    LET found == {k \in 1 .. Len(buf) : buf[k] = event_id}
    IN  IF found = {} THEN 0 ELSE CHOOSE k \in found : \A j \in found : k <= j

\* Node.buf_event_id
buf_event_id(buf, event_id) == Append(buf, event_id)

\* (variant: a stack, the newest message in front)
QueuePutFront(q, msg) == <<msg>> \o q

\* queue.Queue.put / get (FIFO)
QueuePut(q, msg) == Append(q, msg)
QueueFront(q) == Head(q)
QueueRest(q) == Tail(q)

---------------------------------------------------------------------------
\* Scripts

\* What FileReader.events builds from an 'i', 's' or 'r' line.
Kinds(total) ==
    [type : {"i"}, receiver : {None}, dependency : {None}]
    \cup [type : {"s"}, receiver : Nodes, dependency : {None}]
    \cup [type : {"r"}, receiver : {None}, dependency : 1 .. total]

\* An Event of a type Node.run does not know.
BadKinds == [type : {"x"}, receiver : {None}, dependency : {None}]

\* Event ids are unique (a Message's id identifies its send event): the ids
\* 1..total are dealt to the nodes in blocks, in script order.
Owners(total) ==
    {f \in [1 .. total -> Nodes] : \A a, b \in 1 .. total : a < b => f[a] <= f[b]}

IdsOf(owner, n) == {e \in DOMAIN owner : owner[e] = n}

FirstId(S) == CHOOSE e \in S : \A o \in S : e <= o

ScriptOf(owner, kind, n) ==
    LET S == IdsOf(owner, n)
    IN  [k \in 1 .. Cardinality(S) |->
            LET e == FirstId(S) + k - 1
            IN  Event(e, kind[e].type, kind[e].receiver, kind[e].dependency)]

\* A dependency names a send event of some script, or an id no message ever
\* carries; the receive event's own id stands for every such id.
DependencyNamed(kind) ==
    \A e \in DOMAIN kind :
        kind[e].type = "r" =>
            \/ kind[e].dependency = e
            \/ /\ kind[e].dependency \in DOMAIN kind
               /\ kind[kind[e].dependency].type = "s"

\* The scripts of exactly total events, of the kinds FileReader builds and
\* those of extra.
ScriptsOf(total, extra) ==
    {[n \in Nodes |-> ScriptOf(owner, kind, n)] :
        owner \in Owners(total),
        kind \in {k \in [1 .. total -> Kinds(total) \cup extra] : DependencyNamed(k)}}

---------------------------------------------------------------------------
\* Initial state: main, after the nodes are constructed.

InitWith(S) ==
    /\ events \in S
    /\ heap = [n \in Nodes |-> VectorClock(n, NumNodes)]
    /\ queues = [n \in Nodes |-> <<>>]
    /\ buffer = [n \in Nodes |-> <<>>]
    /\ idx = [n \in Nodes |-> 1]
    /\ pc = [n \in Nodes |-> "run"]
    /\ out = <<>>
    /\ enq = [n \in Nodes |-> <<>>]
    /\ deq = [n \in Nodes |-> <<>>]
    /\ matched = [n \in Nodes |-> <<>>]
    /\ begun = [n \in Nodes |-> [slot |-> 0, gets |-> 0]]
    /\ steps = [n \in Nodes |-> <<>>]
    /\ pending = {}
    /\ given = <<>>

\* Scripts of 1 to MaxEvents events.
Init == \E total \in 1 .. MaxEvents : InitWith(ScriptsOf(total, {}))

---------------------------------------------------------------------------
\* Node.run

Running(self) == pc[self] = "run" /\ idx[self] <= Len(events[self])
Finished(self) == pc[self] = "run" /\ idx[self] > Len(events[self])
Ev(self) == events[self][idx[self]]

\* Node.log: the record printed (node id, event id, the clock's values).
LogRecord(self, event_id) ==
    [node |-> self, event_id |-> event_id, clock |-> heap[self].clock]

\* What a node's history notes as an event begins: its own clock slot and
\* the number of messages it has got from its queue so far.
Now(self) == [slot |-> heap[self].clock[self], gets |-> Len(deq[self])]

\* self.log(ev.event_id); self.clock.inc(); on to the next event.  start is
\* what was noted when the event began.
LogAndInc(self, start) ==
    /\ out' = Append(out, LogRecord(self, Ev(self).event_id))
    /\ heap' = inc(heap, self)
    /\ idx' = [idx EXCEPT ![self] = @ + 1]
    /\ pc' = [pc EXCEPT ![self] = "run"]
    /\ steps' = [steps EXCEPT ![self] =
                    Append(@, [event_id |-> Ev(self).event_id,
                               before |-> start.slot,
                               after |-> heap'[self].clock[self],
                               gets |-> Len(deq[self]) - start.gets,
                               got |-> Len(deq[self])])]

\* Independent event.
Independent(self) ==
    /\ Running(self)
    /\ Ev(self).type = "i"
    /\ LogAndInc(self, Now(self))
    /\ UNCHANGED <<events, queues, buffer, enq, deq, matched, begun, harness>>

\* Send event, first half: queues[ev.receiver].put(Message(id, clock.copy()))
SendPut(self) ==
    /\ Running(self)
    /\ Ev(self).type = "s"
    /\ LET c == copy(heap, self, NewRef(Ev(self).event_id))
           msg == Message(Ev(self).event_id, c.ref)
       IN  /\ heap' = c.heap
           /\ queues' = [queues EXCEPT ![Ev(self).receiver] = QueuePut(@, msg)]
           /\ enq' = [enq EXCEPT ![Ev(self).receiver] =
                          Append(@, [event_id |-> msg.event_id,
                                     clock |-> msg.clock,
                                     sent |-> heap[self].clock])]
    /\ pc' = [pc EXCEPT ![self] = "sent"]
    /\ begun' = [begun EXCEPT ![self] = Now(self)]
    /\ UNCHANGED <<events, buffer, idx, out, deq, matched, steps, harness>>

\* (variant: the send branch without its self.log)
SendLogSilent(self) ==
    /\ pc[self] = "sent"
    /\ heap' = inc(heap, self)
    /\ idx' = [idx EXCEPT ![self] = @ + 1]
    /\ pc' = [pc EXCEPT ![self] = "run"]
    /\ UNCHANGED <<events, queues, buffer, out, enq, deq, matched, begun, steps, harness>>

\* Send event, second half: log and increment.
SendLog(self) ==
    /\ pc[self] = "sent"
    /\ LogAndInc(self, begun[self])
    /\ UNCHANGED <<events, queues, buffer, enq, deq, matched, begun, harness>>

\* (variant: wait_on_dependency without the buffered() test)
WaitAlwaysGet(self) ==
    /\ Running(self)
    /\ Ev(self).type = "r"
    /\ pc' = [pc EXCEPT ![self] = "get"]
    /\ begun' = [begun EXCEPT ![self] = Now(self)]
    /\ UNCHANGED <<events, heap, queues, buffer, idx, out, enq, deq, matched, steps,
                   harness>>

\* Receive event: entry of wait_on_dependency, the buffered() test.
WaitOnDependency(self) ==
    /\ Running(self)
    /\ Ev(self).type = "r"
    /\ IF buffered(buffer[self], Ev(self).dependency)
       THEN /\ pc' = [pc EXCEPT ![self] = "log"]
            /\ matched' = [matched EXCEPT ![self] =
                              Append(@, [event_id |-> Ev(self).event_id,
                                         dependency |-> Ev(self).dependency,
                                         via |-> "buffer",
                                         entry |-> BufIndex(buffer[self], Ev(self).dependency)])]
       ELSE /\ pc' = [pc EXCEPT ![self] = "get"]
            /\ UNCHANGED matched
    /\ begun' = [begun EXCEPT ![self] = Now(self)]
    /\ UNCHANGED <<events, heap, queues, buffer, idx, out, enq, deq, steps, harness>>

\* (variant: no buffering loop, the first message got ends the wait)
GetFirst(self) ==
    /\ pc[self] = "get"
    /\ queues[self] # <<>>
    /\ LET msg == QueueFront(queues[self])
       IN  /\ queues' = [queues EXCEPT ![self] = QueueRest(@)]
           /\ deq' = [deq EXCEPT ![self] = Append(@, msg)]
           /\ heap' = merge(heap, self, msg.clock)
           /\ pc' = [pc EXCEPT ![self] = "log"]
           /\ matched' = [matched EXCEPT ![self] =
                             Append(@, [event_id |-> Ev(self).event_id,
                                        dependency |-> Ev(self).dependency,
                                        via |-> "queue",
                                        entry |-> 0])]
    /\ UNCHANGED <<events, buffer, idx, out, enq, begun, steps, harness>>

\* (variant: only the awaited message is merged, the others are buffered
\* unmerged)
GetMergeAwaited(self) ==
    /\ pc[self] = "get"
    /\ queues[self] # <<>>
    /\ LET msg == QueueFront(queues[self])
       IN  /\ queues' = [queues EXCEPT ![self] = QueueRest(@)]
           /\ deq' = [deq EXCEPT ![self] = Append(@, msg)]
           /\ IF msg.event_id # Ev(self).dependency
              THEN /\ heap' = inc(heap, self)
                   /\ buffer' = [buffer EXCEPT ![self] = buf_event_id(@, msg.event_id)]
                   /\ UNCHANGED <<pc, matched>>
              ELSE /\ heap' = merge(heap, self, msg.clock)
                   /\ pc' = [pc EXCEPT ![self] = "log"]
                   /\ matched' = [matched EXCEPT ![self] =
                                     Append(@, [event_id |-> Ev(self).event_id,
                                                dependency |-> Ev(self).dependency,
                                                via |-> "queue",
                                                entry |-> 0])]
                   /\ UNCHANGED buffer
    /\ UNCHANGED <<events, idx, out, enq, begun, steps, harness>>

\* Receive event: one msg = self.queues[self.id].get() (blocking while the
\* queue is empty), self.clock.merge(msg.clock), and the loop test; a
\* message that is not the dependency has its id buffered.
Get(self) ==
    /\ pc[self] = "get"
    /\ queues[self] # <<>>
    /\ LET msg == QueueFront(queues[self])
       IN  /\ queues' = [queues EXCEPT ![self] = QueueRest(@)]
           /\ deq' = [deq EXCEPT ![self] = Append(@, msg)]
           /\ heap' = merge(heap, self, msg.clock)
           /\ IF msg.event_id # Ev(self).dependency
              THEN /\ buffer' = [buffer EXCEPT ![self] = buf_event_id(@, msg.event_id)]
                   /\ UNCHANGED <<pc, matched>>
              ELSE /\ pc' = [pc EXCEPT ![self] = "log"]
                   /\ matched' = [matched EXCEPT ![self] =
                                     Append(@, [event_id |-> Ev(self).event_id,
                                                dependency |-> Ev(self).dependency,
                                                via |-> "queue",
                                                entry |-> 0])]
                   /\ UNCHANGED buffer
    /\ UNCHANGED <<events, idx, out, enq, begun, steps, harness>>

\* Receive event: after wait_on_dependency returns, log and increment.
ReceiveLog(self) ==
    /\ pc[self] = "log"
    /\ LogAndInc(self, begun[self])
    /\ UNCHANGED <<events, queues, buffer, enq, deq, matched, begun, harness>>

\* Unknown event type: print('invalid event'); exit().  exit() raises
\* SystemExit, which ends the calling thread only.
Invalid(self) ==
    /\ Running(self)
    /\ Ev(self).type \notin {"i", "r", "s"}
    /\ pc' = [pc EXCEPT ![self] = "exited"]
    /\ UNCHANGED <<events, heap, queues, buffer, idx, out, enq, deq, matched, begun,
                   steps, harness>>

Next ==
    \E self \in Nodes :
        \/ Independent(self)
        \/ SendPut(self)
        \/ SendLog(self)
        \/ WaitOnDependency(self)
        \/ Get(self)
        \/ ReceiveLog(self)

Spec == Init /\ [][Next]_vars

\* The same program on scripts one event longer.
InitLong == InitWith(ScriptsOf(MaxEvents + 1, {}))

SpecLong == InitLong /\ [][Next]_vars

\* Node threads handed Event lists that may hold an unknown type (FileReader
\* itself builds only 'i', 's' and 'r' events).
InitMalformed == \E total \in 1 .. MaxEvents : InitWith(ScriptsOf(total, BadKinds))

NextMalformed ==
    \E self \in Nodes :
        \/ Independent(self)
        \/ SendPut(self)
        \/ SendLog(self)
        \/ WaitOnDependency(self)
        \/ Get(self)
        \/ ReceiveLog(self)
        \/ Invalid(self)

SpecMalformed == InitMalformed /\ [][NextMalformed]_vars

---------------------------------------------------------------------------
\* VectorClock.merge on its own: a receiver clock (reference 0, owned by any
\* node id) and three detached clocks A, B, C (references 1, 2, 3), merged
\* into the receiver one at a time in any order.

\* Largest counter value of the clocks drawn.
MaxTick == 1

Receiver == 0
Others == {1, 2, 3}

ClockValues == [Nodes -> 0 .. MaxTick]

InitMerge ==
    /\ \E id \in Nodes, r \in ClockValues, abc \in [Others -> ClockValues] :
          heap = [ref \in {Receiver} \cup Others |->
                    IF ref = Receiver
                    THEN [id |-> id, clock |-> r]
                    ELSE [id |-> None, clock |-> abc[ref]]]
    /\ given = heap
    /\ pending = Others
    /\ events = [n \in Nodes |-> <<>>]
    /\ queues = [n \in Nodes |-> <<>>]
    /\ buffer = [n \in Nodes |-> <<>>]
    /\ idx = [n \in Nodes |-> 1]
    /\ pc = [n \in Nodes |-> "run"]
    /\ out = <<>>
    /\ enq = [n \in Nodes |-> <<>>]
    /\ deq = [n \in Nodes |-> <<>>]
    /\ matched = [n \in Nodes |-> <<>>]
    /\ begun = [n \in Nodes |-> [slot |-> 0, gets |-> 0]]
    /\ steps = [n \in Nodes |-> <<>>]

MergeOne(x) ==
    /\ x \in pending
    /\ heap' = merge(heap, Receiver, x)
    /\ pending' = pending \ {x}
    /\ UNCHANGED <<events, queues, buffer, idx, pc, out, enq, deq, matched, begun,
                   steps, given>>

NextMerge == \E x \in Others : MergeOne(x)

SpecMerge == InitMerge /\ [][NextMerge]_vars

---------------------------------------------------------------------------
\* Vocabulary of the properties

\* a >= b element-wise
Dominates(a, b) == \A i \in DOMAIN b : a[i] >= b[i]

\* The events of all scripts, and the node whose script holds an event.
ScriptEvents == UNION {{events[n][k] : k \in 1 .. Len(events[n])} : n \in Nodes}
EventOf(event_id) == CHOOSE e \in ScriptEvents : e.event_id = event_id

\* The messages ever put on node n's queue, and the clock values a message
\* carries (the object its clock field references).
Enqueued(n) == {enq[n][k] : k \in 1 .. Len(enq[n])}
Dequeued(n) == {deq[n][k] : k \in 1 .. Len(deq[n])}
Snapshot(msg) == heap[msg.clock].clock

\* The records node n has printed, in order.
LogOf(n) == SelectSeq(out, LAMBDA r : r.node = n)

\* The node whose script holds the event of this id.
NodeOf(event_id) ==
    CHOOSE n \in Nodes : \E k \in 1 .. Len(events[n]) : events[n][k].event_id = event_id

\* The event ids node n has printed, and those whose message it has got.
LoggedIds(n) == {out[k].event_id : k \in {j \in 1 .. Len(out) : out[j].node = n}}
EnqueuedIds(n) == {enq[n][k].event_id : k \in 1 .. Len(enq[n])}

\* Causal order of the scripts' events, as pairs of event ids: script order
\* on one node, a send before the receive events naming it, and chains.
ScriptOrder(n) ==
    {<<events[n][p[1]].event_id, events[n][p[2]].event_id>> :
        p \in {q \in (1 .. Len(events[n])) \X (1 .. Len(events[n])) : q[1] < q[2]}}

MessageOrder ==
    {<<f.dependency, f.event_id>> :
        f \in {x \in ScriptEvents :
                  /\ x.type = "r"
                  /\ \E e \in ScriptEvents : e.type = "s" /\ e.event_id = x.dependency}}

DirectOrder == UNION {ScriptOrder(n) : n \in Nodes} \cup MessageOrder

RECURSIVE Chains(_)
Chains(R) ==
    LET more == R \cup {<<pq[1][1], pq[2][2]>> : pq \in {x \in R \X R : x[1][2] = x[2][1]}}
    IN  IF more = R THEN R ELSE Chains(more)

CausalOrder == Chains(DirectOrder)

\* The last finished wait of node n.
LastMatch(n) == matched[n][Len(matched[n])]

---------------------------------------------------------------------------
\* C1  Causal dominance: when a node has finished the wait of a Receive
\* event with dependency D (D's message dequeued now, or D found in the
\* buffer), D's message has been put on its queue and the node's clock is
\* element-wise >= the clock that message carries; the same holds of the
\* clock printed for every Receive event.
CausalDominance ==
    /\ \A n \in Nodes :
          pc[n] = "log" =>
              \E msg \in Enqueued(n) :
                  /\ msg.event_id = Ev(n).dependency
                  /\ Dominates(heap[n].clock, Snapshot(msg))
    /\ \A k \in 1 .. Len(out) :
          EventOf(out[k].event_id).type = "r" =>
              \E msg \in Enqueued(out[k].node) :
                  /\ msg.event_id = EventOf(out[k].event_id).dependency
                  /\ Dominates(out[k].clock, Snapshot(msg))

\* C1 witness: a wait just satisfied from the buffer, after a Receive event
\* was printed whose dependency carried a clock that is not all zeros.
CausalDominanceWitness ==
    /\ \E n \in Nodes :
          /\ pc[n] = "log"
          /\ LastMatch(n).via = "buffer"
    /\ \E k \in 1 .. Len(out) :
          /\ EventOf(out[k].event_id).type = "r"
          /\ \E msg \in Enqueued(out[k].node) :
                /\ msg.event_id = EventOf(out[k].event_id).dependency
                /\ \E i \in Nodes : Snapshot(msg)[i] > 0

\* C2 as stated: every event a node executes leaves its own clock slot
\* exactly 1 above the value it had when the event started.
ExactlyOnePerEvent ==
    \A n \in Nodes :
        \A k \in 1 .. Len(steps[n]) :
            steps[n][k].after = steps[n][k].before + 1

\* C2  Monotonicity, amended: a node's own clock slot never decreases; an
\* event leaves it above its value at the start of the event by exactly 1
\* plus the number of messages the node got from its queue during the event
\* (so by exactly 1 for Independent and Send events and for Receive events
\* satisfied from the buffer), and while an event is in progress the slot
\* is its value at the start plus the number of messages got since.
OwnSlotMonotone ==
    \A n \in Nodes :
        /\ \A k \in 1 .. Len(steps[n]) :
              /\ steps[n][k].after = steps[n][k].before + 1 + steps[n][k].gets
              /\ EventOf(steps[n][k].event_id).type \in {"i", "s"} => steps[n][k].gets = 0
              /\ k > 1 => steps[n][k].before = steps[n][k - 1].after
        /\ pc[n] # "run" =>
              /\ heap[n].clock[n] = begun[n].slot + (Len(deq[n]) - begun[n].gets)
              /\ Len(deq[n]) >= begun[n].gets
        /\ steps[n] # <<>> => heap[n].clock[n] >= steps[n][Len(steps[n])].after

\* C2 witness: a finished Receive event that got two messages, and a
\* finished Receive event that got none.
OwnSlotMonotoneWitness ==
    \E n \in Nodes :
        \E a, b \in 1 .. Len(steps[n]) :
            /\ steps[n][a].gets = 2
            /\ steps[n][a].after = steps[n][a].before + 3
            /\ EventOf(steps[n][b].event_id).type = "r"
            /\ steps[n][b].gets = 0

\* C3  Buffer single-use as stated: no entry of a node's receive buffer
\* satisfies more than one Receive event of that node.
BufferSingleUse ==
    \A n \in Nodes :
        \A a, b \in 1 .. Len(matched[n]) :
            (/\ a # b
             /\ matched[n][a].via = "buffer"
             /\ matched[n][b].via = "buffer")
            => matched[n][a].entry # matched[n][b].entry

\* C4  The two-node example: node 0 runs [Send(1, receiver 1)], node 1 runs
\* [Receive(2, dependency 1)].
ExampleScripts ==
    (0 :> <<Event(1, "s", 1, None)>>) @@ (1 :> <<Event(2, "r", None, 1)>>)

\* C4 as stated: once both scripts are exhausted, node 0's clock is [1,0]
\* and node 1's clock is [1,1].
ExampleFinalClocks ==
    (events = ExampleScripts /\ \A n \in Nodes : Finished(n)) =>
        /\ heap[0].clock = (0 :> 1) @@ (1 :> 0)
        /\ heap[1].clock = (0 :> 1) @@ (1 :> 1)

\* C4  The two-node example, amended: once both scripts are exhausted,
\* node 0's clock is [1,0] and node 1's clock is [0,2] in every
\* interleaving: the message carries node 0's clock from before the send's
\* increment, [0,0], and the Receive event increments node 1's slot twice
\* (in merge and after the log), where [0,1] is printed.
ExampleFinalClocksAmended ==
    (events = ExampleScripts /\ \A n \in Nodes : Finished(n)) =>
        /\ heap[0].clock = (0 :> 1) @@ (1 :> 0)
        /\ heap[1].clock = (0 :> 0) @@ (1 :> 2)
        /\ LogOf(1) = <<[node |-> 1, event_id |-> 2, clock |-> (0 :> 0) @@ (1 :> 1)]>>

\* C4 witness: the example's scripts, both exhausted.
ExampleFinalWitness ==
    /\ events = ExampleScripts
    /\ \A n \in Nodes : Finished(n)

\* C5  Causal consistency of the trace: for any two printed events e and f
\* such that e causally precedes f (by script order, by a send and a receive
\* naming it, or by a chain of these), the clock printed for f is
\* element-wise >= the clock printed for e.
CausalConsistency ==
    Len(out) >= 2 =>
        LET order == CausalOrder
        IN  \A i, j \in 1 .. Len(out) :
                <<out[i].event_id, out[j].event_id>> \in order =>
                    Dominates(out[j].clock, out[i].clock)

\* C5 witness: two printed events of different nodes ordered only through a
\* chain, the later with a different clock.
CausalConsistencyWitness ==
    \E i, j \in 1 .. Len(out) :
        /\ <<out[i].event_id, out[j].event_id>> \in CausalOrder \ DirectOrder
        /\ out[i].node # out[j].node
        /\ out[i].clock # out[j].clock

\* The positions in deq[n] of the message of a send event.
DeqPos(n, event_id) == {k \in 1 .. Len(deq[n]) : deq[n][k].event_id = event_id}

\* C6  FIFO per channel: of two Send events of one node addressed to the
\* same receiver, the later one's message is never got by the receiver
\* unless the earlier one's message was got before it.
FifoPerChannel ==
    \A s \in Nodes :
        \A a, b \in 1 .. Len(events[s]) :
            (/\ a < b
             /\ events[s][a].type = "s"
             /\ events[s][b].type = "s"
             /\ events[s][a].receiver = events[s][b].receiver)
            => \A kb \in DeqPos(events[s][b].receiver, events[s][b].event_id) :
                   \E ka \in DeqPos(events[s][a].receiver, events[s][a].event_id) : ka < kb

\* C6 witness: a receiver has got two messages of one sender and a message
\* of another sender.
FifoPerChannelWitness ==
    \E r \in Nodes :
        \E a, b, c \in 1 .. Len(deq[r]) :
            /\ a < b
            /\ NodeOf(deq[r][a].event_id) = NodeOf(deq[r][b].event_id)
            /\ NodeOf(deq[r][c].event_id) # NodeOf(deq[r][a].event_id)

\* C7  Deadlock is left unresolved: a Receive event whose dependency id is
\* the id of no message put on the node's queue is not finished: the node
\* has not printed it nor any later event of its script, and if it has
\* reached it, it stands at it, still running or blocked in get.
DeadlockUnresolved ==
    \A n \in Nodes :
        \A k \in 1 .. Len(events[n]) :
            (/\ events[n][k].type = "r"
             /\ events[n][k].dependency \notin EnqueuedIds(n))
            => /\ idx[n] <= k
               /\ idx[n] = k => pc[n] \in {"run", "get"}
               /\ \A j \in k .. Len(events[n]) : events[n][j].event_id \notin LoggedIds(n)

\* C7 witness: a node blocked in get on an empty queue, after getting and
\* buffering another message, for a dependency never put on its queue, with
\* every other node at the end of its script.
DeadlockUnresolvedWitness ==
    \E n \in Nodes :
        /\ pc[n] = "get"
        /\ queues[n] = <<>>
        /\ deq[n] # <<>>
        /\ Ev(n).dependency \notin EnqueuedIds(n)
        /\ \A m \in Nodes \ {n} : Finished(m)

\* C8  Script order: the event ids a node has printed are, in print order,
\* the ids of the first events of its script, one record for each event
\* executed.
ScriptOrderKept ==
    \A n \in Nodes :
        LET log == LogOf(n)
        IN  /\ Len(log) = idx[n] - 1
            /\ Len(log) <= Len(events[n])
            /\ \A k \in 1 .. Len(log) : log[k].event_id = events[n][k].event_id

\* C8 witness: a node has printed an Independent, a Send and a Receive
\* event, and a record of another node stands between two of its records.
ScriptOrderKeptWitness ==
    \E n \in Nodes :
        /\ {EventOf(e).type : e \in LoggedIds(n)} = {"i", "r", "s"}
        /\ \E a, b, c \in 1 .. Len(out) :
              /\ a < b
              /\ b < c
              /\ out[a].node = n
              /\ out[b].node # n
              /\ out[c].node = n

---------------------------------------------------------------------------
\* VectorClock.merge on its own (SpecMerge)

\* The orders in which A, B and C can be merged, and the receiver's clock
\* after merging them in one order into the clocks given.
Orders ==
    {o \in [1 .. Cardinality(Others) -> Others] :
        \A a, b \in 1 .. Cardinality(Others) : a # b => o[a] # o[b]}

RECURSIVE MergeAll(_, _)
MergeAll(h, order) ==
    IF order = <<>> THEN h ELSE MergeAll(merge(h, Receiver, Head(order)), Tail(order))

SameInEveryOrder ==
    \A o1, o2 \in Orders :
        MergeAll(given, o1)[Receiver].clock = MergeAll(given, o2)[Receiver].clock

\* The largest value the clocks given hold in slot i.
SlotMax(i) ==
    LET vals == {given[ref].clock[i] : ref \in {Receiver} \cup Others}
    IN  CHOOSE v \in vals : \A w \in vals : v >= w

\* Every slot the maximum, plus the receiver's increments (one for each
\* merge) in its own slot.
MaxPlusIncrements ==
    [i \in Nodes |->
        SlotMax(i) + (IF i = given[Receiver].id THEN Cardinality(Others) ELSE 0)]

\* No clock merged is ahead of the receiver in the receiver's own slot.
NoneAheadInOwnSlot ==
    \A ref \in Others :
        given[ref].clock[given[Receiver].id] <= given[Receiver].clock[given[Receiver].id]

\* C9 as stated: for any receiver clock and any clocks A, B, C, the six
\* merge orders give the same clock, every slot the maximum of the four
\* starting values, plus the receiver's increments in its own slot.
MergeOrderFree ==
    pending = {} =>
        /\ SameInEveryOrder
        /\ heap[Receiver].clock = MaxPlusIncrements

\* C9  Merge order-independence, amended: for any receiver clock and any
\* clocks A, B, C of the same length none of which is ahead of the receiver
\* in the receiver's own slot (as is the case for every message of a run),
\* the six merge orders give the same clock, every slot the maximum of the
\* four starting values, plus the receiver's three increments in its own
\* slot.
MergeOrderFreeAmended ==
    (pending = {} /\ NoneAheadInOwnSlot) =>
        /\ SameInEveryOrder
        /\ heap[Receiver].clock = MaxPlusIncrements

\* C9 witness: A, B and C all merged, none ahead in the receiver's own slot,
\* two of them different, and a slot where the maximum is above the
\* receiver's starting value.
MergeOrderFreeWitness ==
    /\ pending = {}
    /\ NoneAheadInOwnSlot
    /\ given[1].clock # given[2].clock
    /\ \E i \in Nodes : SlotMax(i) > given[Receiver].clock[i]

---------------------------------------------------------------------------
---------------------------------------------------------------------------
\* A node stands at a Receive whose dependency id is in its buffer.
AtBufferedReceive(n) ==
    /\ Running(n)
    /\ Ev(n).type = "r"
    /\ buffered(buffer[n], Ev(n).dependency)

\* A node is about to log a Receive that its buffer satisfied.
LoggingFromBuffer(n) ==
    /\ pc[n] = "log"
    /\ matched[n] # <<>>
    /\ LastMatch(n).event_id = Ev(n).event_id
    /\ LastMatch(n).via = "buffer"

\* C11  Buffered dependency needs no channel read: a node that processes a
\* Receive whose dependency id is already in its buffer goes straight to
\* logging, takes nothing from its queue, leaves every queue and buffer
\* as it is, and its clock changes only by the one increment after the log
\* record (which shows the clock the event started with).
BufferedNeedsNoRead ==
    [][\A n \in Nodes :
        /\ (AtBufferedReceive(n) /\ pc'[n] # pc[n]) =>
              /\ pc'[n] = "log"
              /\ queues' = queues /\ deq' = deq /\ buffer' = buffer
              /\ heap' = heap
        /\ LoggingFromBuffer(n) =>
              /\ heap[n].clock[n] = begun[n].slot
              /\ Len(deq[n]) = begun[n].gets
        /\ (LoggingFromBuffer(n) /\ pc'[n] # pc[n]) =>
              /\ queues' = queues /\ deq' = deq /\ buffer' = buffer
              /\ heap' = [heap EXCEPT ![n].clock[n] = @ + 1]
              /\ out' = Append(out, [node |-> n, event_id |-> Ev(n).event_id,
                                     clock |-> heap[n].clock])
              /\ idx'[n] = idx[n] + 1
    ]_vars

\* C11 witness: a node has completed two Receives, the first by reading its
\* queue and buffering a message that was not the awaited one, the second
\* satisfied by that buffered id with no get at all.
BufferedNeedsNoReadWitness ==
    \E n \in Nodes :
        /\ pc[n] = "run"
        /\ Len(matched[n]) = 2
        /\ matched[n][1].via = "queue"
        /\ matched[n][2].via = "buffer"
        /\ steps[n] # <<>>
        /\ steps[n][Len(steps[n])].event_id = matched[n][2].event_id
        /\ steps[n][Len(steps[n])].gets = 0
        /\ matched[n][2].dependency \in {buffer[n][k] : k \in 1 .. Len(buffer[n])}

---------------------------------------------------------------------------
\* The messages node n had got from its queue when it logged its k-th event.
DequeuedBeforeLog(n, k) == {deq[n][q] : q \in 1 .. steps[n][k].got}

\* C12  Every dequeued message is merged immediately: a node's clock is
\* element-wise >= the snapshot of every message it has got from its queue
\* so far, awaited or not; and the clock logged for an event is >= the
\* snapshot of every message the node had got before logging it.
DequeuedIsMerged ==
    \A n \in Nodes :
        /\ \A msg \in Dequeued(n) : Dominates(heap[n].clock, Snapshot(msg))
        /\ \A k \in 1 .. Len(LogOf(n)) :
              \A msg \in DequeuedBeforeLog(n, k) :
                  Dominates(LogOf(n)[k].clock, Snapshot(msg))

\* C12 witness: a node has logged a Receive during which it got two
\* messages, the first not the awaited one (so buffered) and carrying a
\* slot value above what the awaited message carries there.
DequeuedIsMergedWitness ==
    \E n \in Nodes : \E k \in 1 .. Len(steps[n]) :
        /\ steps[n][k].gets = 2
        /\ LET first == deq[n][steps[n][k].got - 1]
               second == deq[n][steps[n][k].got]
           IN  /\ first.event_id \in {buffer[n][b] : b \in 1 .. Len(buffer[n])}
               /\ \E i \in Nodes : Snapshot(first)[i] > Snapshot(second)[i]

---------------------------------------------------------------------------
\* One step of the thread of node self (threading.Thread.start on each
\* Node: every thread that can run is given time to run).
Step(self) ==
    \/ Independent(self)
    \/ SendPut(self)
    \/ SendLog(self)
    \/ WaitOnDependency(self)
    \/ Get(self)
    \/ ReceiveLog(self)

\* Scripts in which every Receive names a Send addressed to its own node,
\* no two Receives name the same id, and the causal order (script order
\* plus Send before the Receive naming it) has no cycle.  Event ids are
\* unique in every script.
WellFormed ==
    /\ \A n \in Nodes : \A k \in 1 .. Len(events[n]) :
          events[n][k].type = "r" =>
              \E e \in ScriptEvents :
                  /\ e.type = "s"
                  /\ e.event_id = events[n][k].dependency
                  /\ e.receiver = n
    /\ \A e, f \in ScriptEvents :
          (e.type = "r" /\ f.type = "r" /\ e.dependency = f.dependency) => e = f
    /\ \A e \in ScriptEvents : <<e.event_id, e.event_id>> \notin CausalOrder

\* The program on well-formed scripts, every node's thread scheduled
\* fairly.
InitWellFormed == Init /\ WellFormed

SpecWellFormed ==
    InitWellFormed /\ [][Next]_vars /\ \A n \in Nodes : WF_vars(Step(n))

\* C13  Termination of well-formed simulations: with unique event ids,
\* every Receive naming a Send addressed to its node, no id named by two
\* Receives and an acyclic causal order, under fair scheduling of the
\* nodes every node eventually exhausts its script.
Termination == <>(\A n \in Nodes : Finished(n))

\* C13 witness: every node has exhausted its script, in a run where some
\* node had one wait satisfied by a get and another by its buffer.
TerminationWitness ==
    /\ \A n \in Nodes : Finished(n)
    /\ \E n \in Nodes :
          /\ \E k \in 1 .. Len(matched[n]) : matched[n][k].via = "queue"
          /\ \E k \in 1 .. Len(matched[n]) : matched[n][k].via = "buffer"

---------------------------------------------------------------------------
\* A node stands at a Send event, its message not yet put.
AtSend(n) == Running(n) /\ Ev(n).type = "s"

\* The message of node n's current Send event, once it has been put.
SentMessage(n) ==
    CHOOSE msg \in Enqueued(Ev(n).receiver) : msg.event_id = Ev(n).event_id

\* C14  Effect of a Send: a Send of node A to node B can always go ahead
\* (both its put and its log); the put appends exactly one message to the
\* tail of B's queue, with the send's event id and a clock equal to A's
\* clock, and changes no other queue, no clock object, no buffer and no
\* script position; the log-and-increment that ends the event changes only
\* A's own slot (+1, so the message carries the clock from before the
\* increment) and A's script position.
SendEffect ==
    [][\A n \in Nodes :
        /\ AtSend(n) => ENABLED SendPut(n)
        /\ pc[n] = "sent" => ENABLED SendLog(n)
        /\ (AtSend(n) /\ pc'[n] # pc[n]) =>
              LET b == Ev(n).receiver
                  msg == queues'[b][Len(queues'[b])]
              IN  /\ Len(queues'[b]) = Len(queues[b]) + 1
                  /\ SubSeq(queues'[b], 1, Len(queues[b])) = queues[b]
                  /\ msg.event_id = Ev(n).event_id
                  /\ heap'[msg.clock].clock = heap[n].clock
                  /\ \A m \in Nodes \ {b} : queues'[m] = queues[m]
                  /\ \A ref \in DOMAIN heap : heap'[ref] = heap[ref]
                  /\ buffer' = buffer
                  /\ idx' = idx
        /\ (pc[n] = "sent" /\ pc'[n] # pc[n]) =>
              /\ queues' = queues
              /\ buffer' = buffer
              /\ Snapshot(SentMessage(n)) = heap[n].clock
              /\ heap' = [heap EXCEPT ![n].clock[n] = @ + 1]
              /\ idx' = [idx EXCEPT ![n] = @ + 1]
    ]_vars

\* C14 witness: a node has completed a Send it began with a clock that was
\* not all zeros, to another node, whose queue already held a message.
SendEffectWitness ==
    \E n \in Nodes : \E k \in 1 .. Len(steps[n]) :
        LET e == EventOf(steps[n][k].event_id)
        IN  /\ e.type = "s"
            /\ e.receiver # n
            /\ steps[n][k].before > 0
            /\ \E q \in 2 .. Len(enq[e.receiver]) :
                  /\ enq[e.receiver][q].event_id = e.event_id
                  /\ enq[e.receiver][q].sent[n] > 0
                  /\ Len(deq[e.receiver]) = 0

---------------------------------------------------------------------------
\* C15  Copy-on-send: the clock a message carries equals the sender's clock
\* at the moment of the send for as long as the message exists: while it
\* is queued, and after it was got and merged; neither the sender's later
\* increments and merges nor the receiver's merge change it.
CopyOnSend ==
    \A n \in Nodes : \A msg \in Enqueued(n) : Snapshot(msg) = msg.sent

\* C15 witness: a message has been got and merged by its receiver, whose
\* clock now differs from what the message carries, and its sender's clock
\* has moved on since the send, by a merge among others.
CopyOnSendWitness ==
    \E n \in Nodes : \E q \in 1 .. Len(deq[n]) :
        LET msg == deq[n][q]
            sender == NodeOf(msg.event_id)
        IN  /\ sender # n
            /\ heap[n].clock # Snapshot(msg)
            /\ heap[sender].clock[sender] > Snapshot(msg)[sender] + 1
            /\ Len(deq[sender]) > 0
            /\ \E i \in Nodes \ {sender} : heap[sender].clock[i] > Snapshot(msg)[i]

---------------------------------------------------------------------------
\* The messages waiting in any queue.
Queued == UNION {{queues[m][q] : q \in 1 .. Len(queues[m])} : m \in Nodes}

\* No clock of a node and no clock of a waiting message is ahead, in slot
\* i, of node i's own clock.
KnowledgeBound ==
    \A i \in Nodes :
        /\ \A j \in Nodes : heap[j].clock[i] <= heap[i].clock[i]
        /\ \A msg \in Queued : Snapshot(msg)[i] <= heap[i].clock[i]

\* Slot i of another node j's clock changes only when j merges the message
\* at the front of its queue, to the maximum of the two values.
ForeignSlotOnlyByMerge ==
    \A i, j \in Nodes :
        (i # j /\ heap'[j].clock[i] # heap[j].clock[i]) =>
            /\ pc[j] = "get"
            /\ queues[j] # <<>>
            /\ queues'[j] = QueueRest(queues[j])
            /\ heap'[j].clock[i] =
                   Max(heap[j].clock[i], Snapshot(QueueFront(queues[j]))[i])

\* C16  Single-writer knowledge bound: in every reachable state, for all
\* nodes i and j, slot i of node j's clock and slot i of every message
\* waiting in a queue are <= slot i of node i's own clock; and slot i of
\* another node's clock changes only by a merge taking the maximum, never
\* by an increment.
SingleWriter == []KnowledgeBound /\ [][ForeignSlotOnlyByMerge]_vars

\* C16 witness: a node's clock holds a non-zero value in another node's
\* slot, learnt by merging, while a message carrying a non-zero value in
\* that slot is still waiting in a queue.
SingleWriterWitness ==
    \E i, j \in Nodes :
        /\ i # j
        /\ heap[j].clock[i] > 0
        /\ Len(deq[j]) > 0
        /\ \E msg \in Queued : Snapshot(msg)[i] > 0

---------------------------------------------------------------------------
\* The causal order of a run, as pairs of event ids: script order on one
\* node, a Send before every event that was logged after the Send's
\* message was got, and chains of these.
GotBeforeLog ==
    UNION {UNION {{<<msg.event_id, steps[n][k].event_id>> :
                      msg \in DequeuedBeforeLog(n, k)} :
                  k \in 1 .. Len(steps[n])} :
           n \in Nodes}

HappenedBefore ==
    Chains(UNION {ScriptOrder(n) : n \in Nodes} \cup GotBeforeLog)

\* C17 as stated: for any two distinct logged events e and f, if the clock
\* logged for f is element-wise >= the clock logged for e, then e causally
\* precedes f.
DominanceImpliesCausality ==
    \A a, b \in 1 .. Len(out) :
        (a # b /\ Dominates(out[b].clock, out[a].clock)) =>
            <<out[a].event_id, out[b].event_id>> \in HappenedBefore

\* C17, amended: for any two distinct logged events e and f, if the clock
\* logged for f is element-wise >= the clock logged for e and strictly
\* greater in the slot of the node that executed e, then e causally
\* precedes f.
DominanceImpliesCausalityAmended ==
    \A a, b \in 1 .. Len(out) :
        (/\ a # b
         /\ Dominates(out[b].clock, out[a].clock)
         /\ out[b].clock[out[a].node] > out[a].clock[out[a].node]) =>
            <<out[a].event_id, out[b].event_id>> \in HappenedBefore

\* C17 witness: two events logged by different nodes, the later one's clock
\* dominating and strictly ahead in the earlier one's node slot, reached
\* through a message (and another pair of logged events with equal clocks
\* on different nodes).
DominanceImpliesCausalityWitness ==
    /\ \E a, b \in 1 .. Len(out) :
          /\ out[a].node # out[b].node
          /\ Dominates(out[b].clock, out[a].clock)
          /\ out[b].clock[out[a].node] > out[a].clock[out[a].node]
    /\ \E a, b \in 1 .. Len(out) :
          /\ out[a].node # out[b].node
          /\ out[a].clock = out[b].clock

---------------------------------------------------------------------------
\* C18 as stated: in the console output, the record of a Send event D comes
\* before the record of every Receive event whose dependency is D.
SendLoggedBeforeReceive ==
    \A k \in 1 .. Len(out) :
        LET f == EventOf(out[k].event_id)
        IN  (f.type = "r" /\ \E e \in ScriptEvents : e.type = "s" /\ e.event_id = f.dependency) =>
                \E j \in 1 .. (k - 1) : out[j].event_id = f.dependency

---------------------------------------------------------------------------
\* The events that come before event e in the script of its node.
EarlierInScript(e) == {p[1] : p \in {q \in ScriptOrder(NodeOf(e)) : q[2] = e}}

\* The events a run completes, worked out from the scripts alone: an event
\* completes when the events before it in its script do and, for a
\* Receive, its dependency is a Send addressed to its node that is reached
\* (the events before that Send complete).
RECURSIVE Completing(_)
Completing(done) ==
    LET ready(x) ==
            /\ EarlierInScript(x.event_id) \subseteq done
            /\ x.type = "r" =>
                  \E s \in ScriptEvents :
                      /\ s.type = "s"
                      /\ s.event_id = x.dependency
                      /\ s.receiver = NodeOf(x.event_id)
                      /\ EarlierInScript(s.event_id) \subseteq done
        more == done \cup {x.event_id : x \in {y \in ScriptEvents : ready(y)}}
    IN  IF more = done THEN done ELSE Completing(more)

\* The events node n has completed.
Completed(n) == {events[n][k].event_id : k \in 1 .. (idx[n] - 1)}

\* No dependency id is named by two Receive events.
OneReceivePerDependency ==
    \A e, f \in ScriptEvents :
        (e.type = "r" /\ f.type = "r" /\ e.dependency = f.dependency) => e = f

\* C19  Schedule-independent outcome: for scripts with unique event ids in
\* which each dependency id is named by at most one Receive, when no node
\* can take a further step the set of events each node has completed is
\* the one fixed by the scripts alone, hence the same in every
\* interleaving.
ScheduleFreeOutcome ==
    (OneReceivePerDependency /\ ~ ENABLED Next) =>
        \A n \in Nodes :
            Completed(n) =
                {e \in Completing({}) : \E k \in 1 .. Len(events[n]) : events[n][k].event_id = e}

\* C19 witness: no node can step; one node is blocked for ever in a get,
\* having completed a Receive during which it buffered a message that was
\* not the awaited one, and another node has exhausted its script.
ScheduleFreeOutcomeWitness ==
    /\ OneReceivePerDependency
    /\ ~ ENABLED Next
    /\ \E n, m \in Nodes :
          /\ pc[n] = "get"
          /\ buffer[n] # <<>>
          /\ matched[n] # <<>>
          /\ Finished(m)
          /\ Len(events[m]) > 0

---------------------------------------------------------------------------
\* C20  Own-slot accounting: whenever a node is between events (its script
\* exhausted or not), its own clock slot equals the number of events it
\* has completed plus the number of messages it has got from its queue.
OwnSlotAccounting ==
    \A n \in Nodes :
        pc[n] = "run" => heap[n].clock[n] = (idx[n] - 1) + Len(deq[n])

\* C20 witness: a node between events that has completed three events and
\* got two messages, so that both terms count.
OwnSlotAccountingWitness ==
    \E n \in Nodes :
        /\ pc[n] = "run"
        /\ idx[n] - 1 = 3
        /\ Len(deq[n]) = 2
        /\ heap[n].clock[n] = 5

===========================================================================
